---- MODULE Spec2Model ----
(***************************************************************************)
(* A model of build_samate.py: the Jobs thread pool, build_source_files,   *)
(* the build phase of main() and the test case discovery of                *)
(* find_all_testcases / find_all_testcases_rec.                            *)
(*                                                                         *)
(* Thread 0 is the main thread; thread k >= 1 is the k-th worker thread    *)
(* created by Jobs.start_job.  A unit (test source path) is a positive     *)
(* integer, a support file a non-positive one.                             *)
(***************************************************************************)
EXTENDS Integers, Sequences, FiniteSets, TLC

\* ---------------------------------------------------------------- bounds
MaxThreads == 2          \* largest --threads value explored
MaxUnits == 3            \* largest small number of discovered test sources

\* ------------------------------------------------------ program constants
ChunkCap == 50           \* min(50, ...) in the chunk_max computation
io_c == 0                \* testcasesupport/io.c
std_thread_c == -1       \* testcasesupport/std_thread.c

\* Numbers of test sources explored in cpp mode only: one that makes
\* N / threads a tie (2.5 on two threads), and two around the point where
\* the cap of 50 starts to bind
BigUnits == {2 * MaxThreads + 1, 2 * ChunkCap - 1, 2 * ChunkCap + 1}

MaxEntries == 2          \* largest number of entries of the root directory

VARIABLES
    language,            \* args.language
    cl,                  \* whether args.cl is set
    threads,             \* args.threads
    testcases,           \* the list returned by find_all_testcases
    cwd,                 \* the process working directory
    use_pipe,            \* args.use_pipe
    output_mutex,        \* args.output_mutex (Semaphore(1)): its counter
    pc,                  \* position of the main thread in main()
    failure,             \* which exception ended main(), "" if none
    slots,               \* jobs.slots: the semaphore's counter
    outstanding_jobs,    \* jobs.outstanding_jobs: thread ids
    _outstanding_jobs,   \* jobs._outstanding_jobs ("unset" until assigned)
    errors,              \* jobs.errors: one entry (the thread id) per exception
    thread,              \* worker threads: position in do_job, job, releases
    bst,                 \* per thread: position in build_source_files and
                         \* its locals rtn, rtn2 (gone when the call ends)
    calls,               \* per thread: the build_source_files calls it made
    chunk, chunk_size, chunk_max,   \* locals of main()
    idx,                 \* number of testcases taken by the for loop
    final,               \* main() is in the 'remainder' chunk branch
    joined,              \* number of threads joined by wait_jobs
    observed,            \* main() saw has_errors() return True
    tree,                \* the listing of args.test_cases_dir, recursively
    args_cwes,           \* args.cwes (a string; empty when not given)
    args_exclude,        \* args.exclude (a string; empty when not given)
    log,                 \* the lines printed by find_all_testcases_rec
    listed               \* the directories os.listdir was called on

fvars == <<tree, args_cwes, args_exclude, log, listed>>

bvars == <<language, cl, threads, testcases, cwd, use_pipe, output_mutex, pc,
           failure, slots, outstanding_jobs, _outstanding_jobs, errors, thread,
           bst, calls, chunk, chunk_size, chunk_max, idx, final, joined,
           observed>>

\* ---------------------------------------------------------------- helpers
\* a thread at position st of build_source_files, locals not (or no longer) set
At(st) == [st |-> st, rtn |-> 0, rtn2 |-> 0]

Min(a, b) == IF a <= b THEN a ELSE b

\* Python 3 round(n / c) for integers n >= 0, c >= 1: nearest, ties to even
round(n, c) ==
    LET q == n \div c
        r == n % c
    IN  IF 2 * r < c THEN q
        ELSE IF 2 * r > c THEN q + 1
        ELSE IF q % 2 = 0 THEN q ELSE q + 1

\* mutant: chunk_max computed the same way for both languages
ChunkMax_AnyLanguage(lang, n, c) == Min(ChunkCap, round(n, c))

\* chunk_max as main() computes it
ChunkMax(lang, n, c) ==
    IF lang = "java" THEN 1 ELSE Min(ChunkCap, round(n, c))

\* support_files as main() builds the list
support_files == IF cl THEN <<io_c, std_thread_c>> ELSE <<io_c>>

\* the command line build_source_files constructs for source_paths
Cmd(source_paths) ==
    IF language = "cpp"
    THEN IF cl
         THEN [tool |-> "cl", pipe |-> FALSE, sources |-> source_paths]
         ELSE [tool |-> "gcc", pipe |-> use_pipe, sources |-> source_paths]
    ELSE [tool |-> "ant", pipe |-> FALSE, sources |-> source_paths]

\* the extra flags of the verbose re-run
Verbose(cmd) ==
    IF cmd.tool = "cl" THEN <<>>
    ELSE IF cmd.tool = "gcc" THEN <<"-v", "-pass-exit-codes">>
    ELSE <<"-v">>

Threads == 0 .. Len(thread)
Workers == 1 .. Len(thread)

\* the source_paths argument of the call thread t is in
PathsOf(t) ==
    IF t = 0 THEN (IF pc = "support_wait" THEN support_files ELSE chunk)
    ELSE thread[t].job

LastCall(t) == calls[t][Len(calls[t])]

SetLastCall(t, rec) ==
    [calls EXCEPT ![t] = [calls[t] EXCEPT ![Len(calls[t])] = rec]]

\* =============================================================== discovery
\* A string is a sequence of characters, a path the sequence of the names
\* below args.test_cases_dir, a directory listing a sequence of entries
\* [name, kind, entries] in os.listdir order.

IsDigit(c) == c \in {"0", "1", "2", "3", "4", "5", "6", "7", "8", "9"}

\* the index after the longest run of digits of s that starts at i
RECURSIVE DigitsEnd(_, _)
DigitsEnd(s, i) ==
    IF i <= Len(s) /\ IsDigit(s[i]) THEN DigitsEnd(s, i + 1) ELSE i

\* s has t at index i
HasAt(s, i, t) ==
    /\ i + Len(t) - 1 <= Len(s)
    /\ \A j \in 1 .. Len(t) : s[i + j - 1] = t[j]

\* regexp '$' at index i of s: the end, or just before a final newline
AtEnd(s, i) == i = Len(s) + 1 \/ (i = Len(s) /\ s[i] = "\n")

\* regexp 'CWE[0-9]+_' at the start of s: the index of the '_', 0 if none
CwePrefix(s) ==
    LET e == DigitsEnd(s, 4)
    IN  IF HasAt(s, 1, <<"C", "W", "E">>) /\ e > 4 /\ HasAt(s, e, <<"_">>)
        THEN e ELSE 0

\* mutant: the subdivision alternative without its '$'
dirs_regexp_match_NoDollar(child) ==
    LET u == CwePrefix(child)
        e == DigitsEnd(child, 2)
    IN  IF u > 0
        THEN [matched |-> TRUE, group1 |-> SubSeq(child, 4, u - 1)]
        ELSE IF HasAt(child, 1, <<"s">>) /\ e > 2
             THEN [matched |-> TRUE, group1 |-> <<>>]
             ELSE [matched |-> FALSE, group1 |-> <<>>]

\* dirs_regexp.match(child) for dirs_exp = "^CWE([0-9]+)_.*|s[0-9]+$":
\* whether it matches and group(1) (empty for None)
dirs_regexp_match(child) ==
    LET u == CwePrefix(child)
        e == DigitsEnd(child, 2)
    IN  IF u > 0
        THEN [matched |-> TRUE, group1 |-> SubSeq(child, 4, u - 1)]
        ELSE IF HasAt(child, 1, <<"s">>) /\ e > 2 /\ AtEnd(child, e)
             THEN [matched |-> TRUE, group1 |-> <<>>]
             ELSE [matched |-> FALSE, group1 |-> <<>>]

\* files_regexp.match(child): "^CWE[0-9]+_.*\.(c|cpp)$" for cpp,
\* "build\.xml$" for java
files_regexp_match(lang, child) ==
    IF lang = "cpp"
    THEN LET u == CwePrefix(child)
         IN  /\ u > 0
             /\ \E p \in u + 1 .. Len(child) :
                   /\ child[p] = "."
                   /\ \A j \in u + 1 .. p - 1 : child[j] # "\n"
                   /\ \/ HasAt(child, p + 1, <<"c">>) /\ AtEnd(child, p + 2)
                      \/ /\ HasAt(child, p + 1, <<"c", "p", "p">>)
                         /\ AtEnd(child, p + 4)
    ELSE /\ HasAt(child, 1, <<"b", "u", "i", "l", "d", ".", "x", "m", "l">>)
         /\ AtEnd(child, 10)

\* the test case find_all_testcases_rec leaves out for gcc
W32_DOTDOTDOT ==
    <<"C", "W", "E", "3", "9", "7", "_", "T", "h", "r", "o", "w", "_", "G",
      "e", "n", "e", "r", "i", "c", "_", "E", "x", "c", "e", "p", "t", "i",
      "o", "n", "_", "_", "d", "e", "c", "l", "a", "r", "e", "_", "d", "o",
      "t", "d", "o", "t", "d", "o", "t", "_", "w", "3", "2", "_", "0", "1",
      ".", "c", "p", "p">>

\* str.split(","): the pieces of s between commas
RECURSIVE split(_, _)
split(s, piece) ==
    IF s = <<>> THEN <<piece>>
    ELSE IF Head(s) = "," THEN <<piece>> \o split(Tail(s), <<>>)
    ELSE split(Tail(s), Append(piece, Head(s)))

\* set(arg.split(",")) if arg else set()
CweSet(arg) ==
    IF arg = <<>> THEN {}
    ELSE LET pieces == split(arg, <<>>)
         IN  {pieces[i] : i \in 1 .. Len(pieces)}

\* mutant: a directory both included and excluded is recursed into
RecurseIn_IncludeWins(group1, cwes_include, cwes_exclude) ==
    IF group1 # <<>>
    THEN IF group1 \in cwes_include THEN TRUE
         ELSE cwes_include = {} /\ group1 \notin cwes_exclude
    ELSE TRUE

\* recurse_in of find_all_testcases_rec for a directory matching dirs_regexp
RecurseIn(group1, cwes_include, cwes_exclude) ==
    IF group1 # <<>>
    THEN LET included == group1 \in cwes_include \/ cwes_include = {}
         IN  IF group1 \in cwes_exclude THEN FALSE ELSE included
    ELSE TRUE

\* report of find_all_testcases_rec for a directory matching dirs_regexp
Report(group1, cwes_include) ==
    group1 # <<>> /\ (group1 \in cwes_include \/ cwes_include = {})

NoResults == [results |-> <<>>, log |-> <<>>, listed |-> {}]

\* find_all_testcases_rec(search_dir, ...), entries being os.listdir(search_dir):
\* the results, the lines printed, and the directories listed
RECURSIVE find_all_testcases_rec(_, _, _, _, _, _)
find_all_testcases_rec(search_dir, entries, lang, cwes_include, cwes_exclude, for_gcc) ==
    IF entries = <<>>
    THEN [NoResults EXCEPT !.listed = {search_dir}]
    ELSE
    LET child == Head(entries)
        child_path == Append(search_dir, child.name)
        dir_match == dirs_regexp_match(child.name)
        sub == IF /\ child.kind = "dir"
                  /\ dir_match.matched
                  /\ RecurseIn(dir_match.group1, cwes_include, cwes_exclude)
               THEN LET new == find_all_testcases_rec(child_path,
                                   child.entries, lang, cwes_include,
                                   cwes_exclude, for_gcc)
                    IN  IF Report(dir_match.group1, cwes_include)
                        THEN [new EXCEPT !.log = Append(@,
                                 [line |-> "found CWE",
                                  cwe |-> dir_match.group1,
                                  n |-> Len(new.results)])]
                        ELSE new
               ELSE NoResults
        file == IF child.kind = "file" /\ files_regexp_match(lang, child.name)
                THEN IF child.name = W32_DOTDOTDOT /\ for_gcc
                     THEN [NoResults EXCEPT !.log =
                              <<[line |-> "excluding", cwe |-> <<>>, n |-> 0]>>]
                     ELSE [NoResults EXCEPT !.results = <<child_path>>]
                ELSE NoResults
        rest == find_all_testcases_rec(search_dir, Tail(entries), lang,
                    cwes_include, cwes_exclude, for_gcc)
    IN  [results |-> sub.results \o file.results \o rest.results,
         log |-> sub.log \o file.log \o rest.log,
         listed |-> sub.listed \cup rest.listed]

\* find_all_testcases(args)
find_all_testcases ==
    find_all_testcases_rec(<<>>, tree, language, CweSet(args_cwes),
                           CweSet(args_exclude), ~cl)

\* ------------------------------------------------- the trees explored
\* names of files and directories
N_CWE1_a_c == <<"C", "W", "E", "1", "_", "a", ".", "c">>
N_CWE1_b_cpp == <<"C", "W", "E", "1", "_", "b", ".", "c", "p", "p">>
N_CWE2_x_cpp == <<"C", "W", "E", "2", "_", "x", ".", "c", "p", "p">>
N_CWE1_a_h == <<"C", "W", "E", "1", "_", "a", ".", "h">>
N_build_xml == <<"b", "u", "i", "l", "d", ".", "x", "m", "l">>
N_CWE1_a == <<"C", "W", "E", "1", "_", "a">>
N_CWE2_b == <<"C", "W", "E", "2", "_", "b">>
N_CWE01_c == <<"C", "W", "E", "0", "1", "_", "c">>
N_CWE_x == <<"C", "W", "E", "_", "x">>
N_CACHE_temp == <<"C", "A", "C", "H", "E", "_", "t", "e", "m", "p">>
N_s01 == <<"s", "0", "1">>
N_s02 == <<"s", "0", "2">>
N_s1x == <<"s", "1", "x">>

File(name) == [name |-> name, kind |-> "file", entries |-> <<>>]
Dir(name, entries) == [name |-> name, kind |-> "dir", entries |-> entries]

\* the entries the root directory is made of
TopEntries ==
    { File(N_CWE1_a_c), File(N_CWE1_a_h), File(W32_DOTDOTDOT),
      File(N_build_xml),
      Dir(N_CWE1_a, <<Dir(N_s01, <<File(N_CWE1_a_c)>>),
                      Dir(N_s02, <<File(N_CWE1_b_cpp), File(N_build_xml)>>)>>),
      Dir(N_CWE2_b, <<File(N_CWE2_x_cpp), File(N_build_xml),
                      Dir(N_CACHE_temp, <<File(N_CWE2_x_cpp)>>)>>),
      Dir(N_CWE01_c, <<Dir(N_CWE1_a, <<File(N_CWE1_a_c)>>),
                       File(W32_DOTDOTDOT)>>),
      Dir(N_CACHE_temp, <<File(N_CWE1_a_c), File(N_build_xml)>>),
      Dir(N_s01, <<Dir(N_CWE2_b, <<File(N_CWE2_x_cpp)>>)>>),
      Dir(N_s1x, <<File(N_CWE1_a_c)>>),
      Dir(N_CWE_x, <<File(N_CWE1_a_c)>>),
      Dir(N_build_xml, <<File(N_CWE1_a_c)>>) }

\* listings of at most n entries with distinct names
Listings(n) ==
    UNION { { l \in [1 .. m -> TopEntries] :
                \A i, j \in 1 .. m : i # j => l[i].name # l[j].name }
            : m \in 0 .. n }

\* values of --cwes and --exclude
CweArgs == { <<>>, <<"1">>, <<"2">>, <<"1", ",", "2">>, <<"0", "1">> }

\* ------------------------------------------------------------------- Init
NoScan ==
    /\ tree = <<>>
    /\ args_cwes = <<>>
    /\ args_exclude = <<>>
    /\ log = <<>>
    /\ listed = {}

Init ==
    /\ NoScan
    /\ language \in {"cpp", "java"}
    /\ cl \in BOOLEAN
    /\ threads \in 0 .. MaxThreads
    /\ \E n \in (0 .. MaxUnits) \cup BigUnits :
          /\ n \in BigUnits => language = "cpp"
          /\ testcases = [i \in 1 .. n |-> i]
    /\ cwd = "original"
    /\ use_pipe = ~cl
    /\ output_mutex = 1
    /\ pc = "start"
    /\ failure = ""
    /\ slots = 0
    /\ outstanding_jobs = <<>>
    /\ _outstanding_jobs = "unset"
    /\ errors = <<>>
    /\ thread = <<>>
    /\ bst = [t \in {0} |-> At("idle")]
    /\ calls = [t \in {0} |-> <<>>]
    /\ chunk = <<>>
    /\ chunk_size = 0
    /\ chunk_max = 0
    /\ idx = 0
    /\ final = FALSE
    /\ joined = 0
    /\ observed = FALSE

\* the state in which main() calls find_all_testcases(args)
InitFind ==
    /\ language \in {"cpp", "java"}
    /\ cl \in BOOLEAN
    /\ threads = 1
    /\ tree \in Listings(MaxEntries)
    /\ args_cwes \in CweArgs
    /\ args_exclude \in CweArgs
    /\ log = <<>>
    /\ listed = {}
    /\ testcases = <<>>
    /\ cwd = "original"
    /\ use_pipe = ~cl
    /\ output_mutex = 1
    /\ pc = "scan"
    /\ failure = ""
    /\ slots = 0
    /\ outstanding_jobs = <<>>
    /\ _outstanding_jobs = "unset"
    /\ errors = <<>>
    /\ thread = <<>>
    /\ bst = [t \in {0} |-> At("idle")]
    /\ calls = [t \in {0} |-> <<>>]
    /\ chunk = <<>>
    /\ chunk_size = 0
    /\ chunk_max = 0
    /\ idx = 0
    /\ final = FALSE
    /\ joined = 0
    /\ observed = FALSE

\* testcases = find_all_testcases(args)
FindTestcases ==
    /\ pc = "scan"
    /\ LET r == find_all_testcases IN
          /\ testcases' = r.results
          /\ log' = r.log
          /\ listed' = r.listed
    /\ pc' = "scanned"
    /\ UNCHANGED <<tree, args_cwes, args_exclude, language, cl, threads, cwd,
                   use_pipe, output_mutex, failure, slots, outstanding_jobs,
                   _outstanding_jobs, errors, thread, bst, calls, chunk,
                   chunk_size, chunk_max, idx, final, joined, observed>>

NextFind == FindTestcases

\* ------------------------------------------------- build_source_files(t)
\* construct the command line and run it quietly (or refuse, for ant)
Invoke(t) ==
    /\ bst[t].st = "call"
    /\ IF language = "java" /\ Len(PathsOf(t)) > 1
       THEN /\ bst' = [bst EXCEPT ![t] = At("raise")]
            /\ calls' = [calls EXCEPT ![t] = Append(@,
                   [cmd |-> Cmd(PathsOf(t)), quiet |-> 0, rtn |-> 0,
                    verbose |-> 0, vflags |-> <<>>, raised |-> TRUE])]
       ELSE \E rtn \in {0, 1} :
            /\ bst' = [bst EXCEPT ![t] =
                          IF rtn = 0 THEN At("ok")
                          ELSE [st |-> "acquire", rtn |-> rtn, rtn2 |-> 0]]
            /\ calls' = [calls EXCEPT ![t] = Append(@,
                   [cmd |-> Cmd(PathsOf(t)), quiet |-> 1, rtn |-> rtn,
                    verbose |-> 0, vflags |-> <<>>, raised |-> FALSE])]
    /\ UNCHANGED <<fvars, language, cl, threads, testcases, cwd, use_pipe,
                   output_mutex, pc, failure, slots, outstanding_jobs,
                   _outstanding_jobs, errors, thread, chunk, chunk_size,
                   chunk_max, idx, final, joined, observed>>

\* mutant: the diagnostic section is entered without taking the mutex
AcquireMutex_NoLock(t) ==
    /\ bst[t].st = "acquire"
    /\ bst' = [bst EXCEPT ![t].st = "diag"]
    /\ UNCHANGED <<fvars, language, cl, threads, testcases, cwd, use_pipe,
                   output_mutex, pc, failure, slots, outstanding_jobs,
                   _outstanding_jobs, errors, thread, calls, chunk,
                   chunk_size, chunk_max, idx, final, joined, observed>>

\* args.output_mutex.acquire()
AcquireMutex(t) ==
    /\ bst[t].st = "acquire"
    /\ output_mutex > 0
    /\ output_mutex' = output_mutex - 1
    /\ bst' = [bst EXCEPT ![t].st = "diag"]
    /\ UNCHANGED <<fvars, language, cl, threads, testcases, cwd, use_pipe, pc,
                   failure, slots, outstanding_jobs, _outstanding_jobs,
                   errors, thread, calls, chunk, chunk_size, chunk_max, idx,
                   final, joined, observed>>

\* the prints and the re-run of the command with the verbose flags
Rerun(t) ==
    /\ bst[t].st = "diag"
    /\ \E rtn2 \in {0, 1} :
          bst' = [bst EXCEPT ![t].st = "release", ![t].rtn2 = rtn2]
    /\ calls' = SetLastCall(t, [LastCall(t) EXCEPT
                    !.verbose = @ + 1,
                    !.vflags = Verbose(LastCall(t).cmd)])
    /\ UNCHANGED <<fvars, language, cl, threads, testcases, cwd, use_pipe,
                   output_mutex, pc, failure, slots, outstanding_jobs,
                   _outstanding_jobs, errors, thread, chunk, chunk_size,
                   chunk_max, idx, final, joined, observed>>

\* mutant: the build counts as failed only if the verbose re-run failed too
ReleaseMutex_TrustRerun(t) ==
    /\ bst[t].st = "release"
    /\ output_mutex' = output_mutex + 1
    /\ bst' = [bst EXCEPT ![t] =
                  IF bst[t].rtn2 = 0 THEN At("ok") ELSE At("raise")]
    /\ calls' = SetLastCall(t, [LastCall(t) EXCEPT
                    !.raised = (bst[t].rtn2 # 0)])
    /\ UNCHANGED <<fvars, language, cl, threads, testcases, cwd, use_pipe,
                   pc, failure, slots, outstanding_jobs, _outstanding_jobs,
                   errors, thread, chunk, chunk_size, chunk_max, idx, final,
                   joined, observed>>

\* args.output_mutex.release(), then raise Exception("Build ... failed.")
ReleaseMutex(t) ==
    /\ bst[t].st = "release"
    /\ output_mutex' = output_mutex + 1
    /\ bst' = [bst EXCEPT ![t] = At("raise")]
    /\ calls' = SetLastCall(t, [LastCall(t) EXCEPT !.raised = TRUE])
    /\ UNCHANGED <<fvars, language, cl, threads, testcases, cwd, use_pipe, pc,
                   failure, slots, outstanding_jobs, _outstanding_jobs,
                   errors, thread, chunk, chunk_size, chunk_max, idx, final,
                   joined, observed>>

\* ------------------------------------------------------ Jobs: do_job(k)
\* mutant: the exception is re-raised without being recorded
JobExcept_NoAppend(k) ==
    /\ thread[k].wpc = "do"
    /\ bst[k].st = "raise"
    /\ thread' = [thread EXCEPT ![k].wpc = "finally"]
    /\ UNCHANGED <<fvars, language, cl, threads, testcases, cwd, use_pipe,
                   output_mutex, pc, failure, slots, outstanding_jobs,
                   _outstanding_jobs, errors, bst, calls, chunk, chunk_size,
                   chunk_max, idx, final, joined, observed>>

\* except Exception as e: self.errors.append(e); raise
JobExcept(k) ==
    /\ thread[k].wpc = "do"
    /\ bst[k].st = "raise"
    /\ errors' = Append(errors, k)
    /\ thread' = [thread EXCEPT ![k].wpc = "finally"]
    /\ UNCHANGED <<fvars, language, cl, threads, testcases, cwd, use_pipe,
                   output_mutex, pc, failure, slots, outstanding_jobs,
                   _outstanding_jobs, bst, calls, chunk, chunk_size,
                   chunk_max, idx, final, joined, observed>>

\* mutant: the slot is released after job.do() returns instead of in a
\* finally clause, so a raising job ends without releasing it
JobFinally_NotOnRaise(k) ==
    /\ \/ thread[k].wpc = "do" /\ bst[k].st = "ok"
       \/ thread[k].wpc = "finally"
    /\ slots' = IF bst[k].st = "ok" THEN slots + 1 ELSE slots
    /\ thread' = [thread EXCEPT ![k].wpc = "dead",
                    ![k].releases = IF bst[k].st = "ok" THEN @ + 1 ELSE @]
    /\ UNCHANGED <<fvars, language, cl, threads, testcases, cwd, use_pipe,
                   output_mutex, pc, failure, outstanding_jobs,
                   _outstanding_jobs, errors, bst, calls, chunk, chunk_size,
                   chunk_max, idx, final, joined, observed>>

\* finally: self.slots.release(), reached when job.do() returned or after
\* the except clause; the thread then ends
JobFinally(k) ==
    /\ \/ thread[k].wpc = "do" /\ bst[k].st = "ok"
       \/ thread[k].wpc = "finally"
    /\ slots' = slots + 1
    /\ thread' = [thread EXCEPT ![k].wpc = "dead", ![k].releases = @ + 1]
    /\ UNCHANGED <<fvars, language, cl, threads, testcases, cwd, use_pipe,
                   output_mutex, pc, failure, outstanding_jobs,
                   _outstanding_jobs, errors, bst, calls, chunk, chunk_size,
                   chunk_max, idx, final, joined, observed>>

\* Jobs.has_errors()
has_errors == Len(errors) > 0

\* ------------------------------------------------------------------ main()
\* os.chdir(args.object_dir)
StartBuilding ==
    /\ pc = "start"
    /\ cwd' = "object"
    /\ pc' = IF language = "cpp" THEN "support" ELSE "pool"
    /\ UNCHANGED <<fvars, language, cl, threads, testcases, use_pipe, output_mutex,
                   failure, slots, outstanding_jobs, _outstanding_jobs,
                   errors, thread, bst, calls, chunk, chunk_size, chunk_max,
                   idx, final, joined, observed>>

\* while not success: try: build_source_files(args, support_files)
SupportCall ==
    /\ pc = "support"
    /\ pc' = "support_wait"
    /\ bst' = [bst EXCEPT ![0] = At("call")]
    /\ UNCHANGED <<fvars, language, cl, threads, testcases, cwd, use_pipe,
                   output_mutex, failure, slots, outstanding_jobs,
                   _outstanding_jobs, errors, thread, calls, chunk,
                   chunk_size, chunk_max, idx, final, joined, observed>>

\* success = True
SupportReturn ==
    /\ pc = "support_wait"
    /\ bst[0].st = "ok"
    /\ pc' = "pool"
    /\ bst' = [bst EXCEPT ![0] = At("idle")]
    /\ UNCHANGED <<fvars, language, cl, threads, testcases, cwd, use_pipe,
                   output_mutex, failure, slots, outstanding_jobs,
                   _outstanding_jobs, errors, thread, calls, chunk,
                   chunk_size, chunk_max, idx, final, joined, observed>>

\* mutant: the retry leaves args.use_pipe set
SupportExcept_KeepPipe ==
    /\ pc = "support_wait"
    /\ bst[0].st = "raise"
    /\ bst' = [bst EXCEPT ![0] = At("idle")]
    /\ IF use_pipe
       THEN /\ pc' = "support"
            /\ UNCHANGED <<failure, use_pipe>>
       ELSE /\ pc' = "fatal"
            /\ failure' = "support"
            /\ UNCHANGED use_pipe
    /\ UNCHANGED <<fvars, language, cl, threads, testcases, cwd, output_mutex,
                   slots, outstanding_jobs, _outstanding_jobs, errors, thread,
                   calls, chunk, chunk_size, chunk_max, idx, final, joined,
                   observed>>

\* except: back off -pipe and retry, or re-raise
SupportExcept ==
    /\ pc = "support_wait"
    /\ bst[0].st = "raise"
    /\ bst' = [bst EXCEPT ![0] = At("idle")]
    /\ IF use_pipe
       THEN /\ use_pipe' = FALSE
            /\ pc' = "support"
            /\ UNCHANGED failure
       ELSE /\ pc' = "fatal"
            /\ failure' = "support"
            /\ UNCHANGED use_pipe
    /\ UNCHANGED <<fvars, language, cl, threads, testcases, cwd, output_mutex,
                   slots, outstanding_jobs, _outstanding_jobs, errors, thread,
                   calls, chunk, chunk_size, chunk_max, idx, final, joined,
                   observed>>

\* jobs = Jobs(args.threads), chunk = [], chunk_size = 0, chunk_max = ...
CreatePool ==
    /\ pc = "pool"
    /\ IF threads >= 1
       THEN /\ slots' = threads
            /\ outstanding_jobs' = <<>>
            /\ errors' = <<>>
            /\ chunk' = <<>>
            /\ chunk_size' = 0
            /\ chunk_max' = ChunkMax(language, Len(testcases), threads)
            /\ pc' = "loop"
            /\ UNCHANGED failure
       ELSE /\ pc' = "fatal"
            /\ failure' = "threads"
            /\ UNCHANGED <<slots, outstanding_jobs, errors, chunk,
                           chunk_size, chunk_max>>
    /\ UNCHANGED <<fvars, language, cl, threads, testcases, cwd, use_pipe,
                   output_mutex, _outstanding_jobs, thread, bst, calls, idx,
                   final, joined, observed>>

\* where a ready chunk goes: inline when threads == 1, else to the pool
DispatchPc == IF threads = 1 THEN "inline" ELSE "acquire_slot"

\* mutant: the chunk is dispatched one unit late
ChunkFull_Strict(size, max) == size > max

\* the chunk is complete
ChunkFull(size, max) == size >= max

\* 'for testcase in testcases' from position i with the chunk ch of size n:
\* append, count, and stop at the first chunk that is full (full = TRUE)
\* or when the list is exhausted (full = FALSE)
RECURSIVE TakeUnits(_, _, _)
TakeUnits(i, ch, n) ==
    IF i >= Len(testcases)
    THEN [idx |-> i, chunk |-> ch, chunk_size |-> n, full |-> FALSE]
    ELSE IF ChunkFull(n + 1, chunk_max)
         THEN [idx |-> i + 1, chunk |-> Append(ch, testcases[i + 1]),
               chunk_size |-> n + 1, full |-> TRUE]
         ELSE TakeUnits(i + 1, Append(ch, testcases[i + 1]), n + 1)

\* the iterations of the for loop up to the next dispatch (they change only
\* locals of main()); when the list is exhausted control reaches the
\* remainder test
LoopStep ==
    /\ pc = "loop"
    /\ LET r == TakeUnits(idx, chunk, chunk_size) IN
          /\ idx' = r.idx
          /\ chunk' = r.chunk
          /\ chunk_size' = r.chunk_size
          /\ pc' = IF r.full THEN DispatchPc ELSE "remainder"
    /\ UNCHANGED <<fvars, language, cl, threads, testcases, cwd, use_pipe,
                   output_mutex, failure, slots, outstanding_jobs,
                   _outstanding_jobs, errors, thread, bst, calls, chunk_max,
                   final, joined, observed>>

\* if chunk_size >= 1: run final 'remainder' chunk
Remainder ==
    /\ pc = "remainder"
    /\ IF chunk_size >= 1
       THEN /\ final' = TRUE
            /\ pc' = DispatchPc
       ELSE /\ pc' = "wait_jobs"
            /\ UNCHANGED final
    /\ UNCHANGED <<fvars, language, cl, threads, testcases, cwd, use_pipe,
                   output_mutex, failure, slots, outstanding_jobs,
                   _outstanding_jobs, errors, thread, bst, calls, chunk,
                   chunk_size, chunk_max, idx, joined, observed>>

\* threads == 1: build_source_files(args, chunk) in the main thread
InlineCall ==
    /\ pc = "inline"
    /\ pc' = "inline_wait"
    /\ bst' = [bst EXCEPT ![0] = At("call")]
    /\ UNCHANGED <<fvars, language, cl, threads, testcases, cwd, use_pipe,
                   output_mutex, failure, slots, outstanding_jobs,
                   _outstanding_jobs, errors, thread, calls, chunk,
                   chunk_size, chunk_max, idx, final, joined, observed>>

\* the inline build returned: chunk = [], chunk_size = 0 (in the loop)
InlineReturn ==
    /\ pc = "inline_wait"
    /\ bst[0].st = "ok"
    /\ bst' = [bst EXCEPT ![0] = At("idle")]
    /\ IF final
       THEN /\ pc' = "wait_jobs"
            /\ UNCHANGED <<chunk, chunk_size>>
       ELSE /\ pc' = "loop"
            /\ chunk' = <<>>
            /\ chunk_size' = 0
    /\ UNCHANGED <<fvars, language, cl, threads, testcases, cwd, use_pipe,
                   output_mutex, failure, slots, outstanding_jobs,
                   _outstanding_jobs, errors, thread, calls, chunk_max, idx,
                   final, joined, observed>>

\* mutant: a failed inline build is passed over and the loop goes on
InlineRaise_Continue ==
    /\ pc = "inline_wait"
    /\ bst[0].st = "raise"
    /\ bst' = [bst EXCEPT ![0] = At("idle")]
    /\ IF final
       THEN /\ pc' = "wait_jobs"
            /\ UNCHANGED <<chunk, chunk_size>>
       ELSE /\ pc' = "loop"
            /\ chunk' = <<>>
            /\ chunk_size' = 0
    /\ UNCHANGED <<fvars, language, cl, threads, testcases, cwd, use_pipe,
                   output_mutex, failure, slots, outstanding_jobs,
                   _outstanding_jobs, errors, thread, calls, chunk_max, idx,
                   final, joined, observed>>

\* the inline build raised: the exception leaves main()
InlineRaise ==
    /\ pc = "inline_wait"
    /\ bst[0].st = "raise"
    /\ bst' = [bst EXCEPT ![0] = At("idle")]
    /\ pc' = "fatal"
    /\ failure' = "build"
    /\ UNCHANGED <<fvars, language, cl, threads, testcases, cwd, use_pipe,
                   output_mutex, slots, outstanding_jobs, _outstanding_jobs,
                   errors, thread, calls, chunk, chunk_size, chunk_max, idx,
                   final, joined, observed>>

\* mutant: start_job does not wait for a free slot
AcquireSlot_NoWait ==
    /\ pc = "acquire_slot"
    /\ slots' = slots - 1
    /\ pc' = "start_thread"
    /\ UNCHANGED <<fvars, language, cl, threads, testcases, cwd, use_pipe,
                   output_mutex, failure, outstanding_jobs,
                   _outstanding_jobs, errors, thread, bst, calls, chunk,
                   chunk_size, chunk_max, idx, final, joined, observed>>

\* Jobs.start_job: self.slots.acquire()
AcquireSlot ==
    /\ pc = "acquire_slot"
    /\ slots > 0
    /\ slots' = slots - 1
    /\ pc' = "start_thread"
    /\ UNCHANGED <<fvars, language, cl, threads, testcases, cwd, use_pipe,
                   output_mutex, failure, outstanding_jobs,
                   _outstanding_jobs, errors, thread, bst, calls, chunk,
                   chunk_size, chunk_max, idx, final, joined, observed>>

\* Jobs.start_job: thread.start(); self.outstanding_jobs.append(thread)
StartThread ==
    /\ pc = "start_thread"
    /\ LET k == Len(thread) + 1 IN
          /\ thread' = Append(thread,
                          [wpc |-> "do", job |-> chunk, releases |-> 0])
          /\ bst' = [t \in 0 .. k |-> IF t = k THEN At("call") ELSE bst[t]]
          /\ calls' = [t \in 0 .. k |-> IF t = k THEN <<>> ELSE calls[t]]
          /\ outstanding_jobs' = Append(outstanding_jobs, k)
    /\ pc' = IF final THEN "wait_jobs" ELSE "check_errors"
    /\ UNCHANGED <<fvars, language, cl, threads, testcases, cwd, use_pipe,
                   output_mutex, failure, slots, _outstanding_jobs, errors,
                   chunk, chunk_size, chunk_max, idx, final, joined,
                   observed>>

\* if jobs.has_errors(): break   /   chunk = [], chunk_size = 0
CheckErrors ==
    /\ pc = "check_errors"
    /\ IF has_errors
       THEN /\ observed' = TRUE
            /\ pc' = "remainder"
            /\ UNCHANGED <<chunk, chunk_size>>
       ELSE /\ pc' = "loop"
            /\ chunk' = <<>>
            /\ chunk_size' = 0
            /\ UNCHANGED observed
    /\ UNCHANGED <<fvars, language, cl, threads, testcases, cwd, use_pipe,
                   output_mutex, failure, slots, outstanding_jobs,
                   _outstanding_jobs, errors, thread, bst, calls, chunk_max,
                   idx, final, joined>>

\* mutant: wait_jobs walks the list without joining
JoinJob_NoWait ==
    /\ pc = "wait_jobs"
    /\ joined < Len(outstanding_jobs)
    /\ joined' = joined + 1
    /\ UNCHANGED <<fvars, language, cl, threads, testcases, cwd, use_pipe,
                   output_mutex, pc, failure, slots, outstanding_jobs,
                   _outstanding_jobs, errors, thread, bst, calls, chunk,
                   chunk_size, chunk_max, idx, final, observed>>

\* Jobs.wait_jobs: one job.join() of the for loop
JoinJob ==
    /\ pc = "wait_jobs"
    /\ joined < Len(outstanding_jobs)
    /\ thread[outstanding_jobs[joined + 1]].wpc = "dead"
    /\ joined' = joined + 1
    /\ UNCHANGED <<fvars, language, cl, threads, testcases, cwd, use_pipe,
                   output_mutex, pc, failure, slots, outstanding_jobs,
                   _outstanding_jobs, errors, thread, bst, calls, chunk,
                   chunk_size, chunk_max, idx, final, observed>>

\* mutant: wait_jobs returns without looking at the errors
WaitJobsEnd_NoRaise ==
    /\ pc = "wait_jobs"
    /\ joined = Len(outstanding_jobs)
    /\ _outstanding_jobs' = "empty"
    /\ pc' = "built"
    /\ UNCHANGED <<fvars, language, cl, threads, testcases, cwd, use_pipe,
                   output_mutex, failure, slots, outstanding_jobs, errors,
                   thread, bst, calls, chunk, chunk_size, chunk_max, idx,
                   final, joined, observed>>

\* Jobs.wait_jobs after the joins: self._outstanding_jobs = [], then raise
\* if there are errors
WaitJobsEnd ==
    /\ pc = "wait_jobs"
    /\ joined = Len(outstanding_jobs)
    /\ _outstanding_jobs' = "empty"
    /\ IF Len(errors) > 0
       THEN /\ pc' = "fatal"
            /\ failure' = "pool"
       ELSE /\ pc' = "built"
            /\ UNCHANGED failure
    /\ UNCHANGED <<fvars, language, cl, threads, testcases, cwd, use_pipe,
                   output_mutex, slots, outstanding_jobs, errors, thread,
                   bst, calls, chunk, chunk_size, chunk_max, idx, final,
                   joined, observed>>

\* mutant: the build phase ends without changing back
DoneBuilding_NoChdir ==
    /\ pc = "built"
    /\ pc' = "success"
    /\ UNCHANGED <<fvars, language, cl, threads, testcases, cwd, use_pipe,
                   output_mutex, failure, slots, outstanding_jobs,
                   _outstanding_jobs, errors, thread, bst, calls, chunk,
                   chunk_size, chunk_max, idx, final, joined, observed>>

\* "all testcases built."; os.chdir(original_dir)
DoneBuilding ==
    /\ pc = "built"
    /\ cwd' = "original"
    /\ pc' = "success"
    /\ UNCHANGED <<fvars, language, cl, threads, testcases, use_pipe, output_mutex,
                   failure, slots, outstanding_jobs, _outstanding_jobs,
                   errors, thread, bst, calls, chunk, chunk_size, chunk_max,
                   idx, final, joined, observed>>

Next ==
    \/ StartBuilding
    \/ SupportCall
    \/ SupportReturn
    \/ SupportExcept
    \/ CreatePool
    \/ LoopStep
    \/ Remainder
    \/ InlineCall
    \/ InlineReturn
    \/ InlineRaise
    \/ AcquireSlot
    \/ StartThread
    \/ CheckErrors
    \/ JoinJob
    \/ WaitJobsEnd
    \/ DoneBuilding
    \/ \E t \in Threads : Invoke(t)
    \/ \E t \in Threads : AcquireMutex(t)
    \/ \E t \in Threads : Rerun(t)
    \/ \E t \in Threads : ReleaseMutex(t)
    \/ \E k \in Workers : JobExcept(k)
    \/ \E k \in Workers : JobFinally(k)

vars == <<bvars, fvars>>

Spec == Init /\ [][Next]_vars

\* threads are scheduled and every external process returns: a step that
\* can be taken is eventually taken
SpecFair == Init /\ [][Next]_vars /\ WF_vars(Next)

SpecFind == InitFind /\ [][NextFind]_vars

\* ============================================================ properties
\* the worker threads that have not released their slot yet
Executing == {k \in Workers : thread[k].wpc # "dead"}

\* worker k's job.do() raised
Raised(k) == Len(calls[k]) = 1 /\ calls[k][1].raised

\* worker k's job.do() ran to its end, normally or by raising
Completed(k) ==
    /\ Len(calls[k]) = 1
    /\ bst[k].st \in {"ok", "raise"}

\* wait_jobs has returned normally / has raised
WaitReturned == pc \in {"built", "success"}
WaitRaised == pc = "fatal" /\ failure = "pool"

Range(seq) == {seq[i] : i \in 1 .. Len(seq)}

RECURSIVE Flatten(_)
Flatten(seqs) ==
    IF seqs = <<>> THEN <<>> ELSE Head(seqs) \o Flatten(Tail(seqs))

Max(a, b) == IF a >= b THEN a ELSE b

CeilDiv(a, b) == (a + b - 1) \div b

\* the calls of the main thread that build support files / unit batches
IsSupportCall(c) == c.cmd.sources[1] <= 0
IsUnitCall(c) == c.cmd.sources[1] > 0
SupportCalls == SelectSeq(calls[0], IsSupportCall)
InlineCalls == SelectSeq(calls[0], IsUnitCall)

\* the batches dispatched so far, in submission order
Batches ==
    IF threads = 1
    THEN [i \in 1 .. Len(InlineCalls) |-> InlineCalls[i].cmd.sources]
    ELSE [k \in 1 .. Len(thread) |-> thread[k].job]

\* some unit batch has been handed to a build (inline or in a worker)
UnitBatchInvoked == Len(InlineCalls) > 0 \/ Len(thread) > 0

\* jobs = Jobs(args.threads) has been executed
PoolCreated ==
    /\ pc \notin {"start", "support", "support_wait", "pool"}
    /\ failure \notin {"support", "threads"}

\* C1: at most `threads` jobs are executing (begun job.do(), slot not yet
\* released) in every reachable state
C1_BoundedExecuting == Cardinality(Executing) <= threads

\* C1 witness: the pool is full and main() is blocked with a further job
C1_Witness ==
    /\ threads >= 2
    /\ pc = "acquire_slot"
    /\ Cardinality(Executing) = threads
    /\ slots = 0

\* C2: when wait_jobs returns or raises, every started worker has terminated,
\* and each ran its job to the end (none was cancelled)
C2_JoinBarrier ==
    (WaitReturned \/ WaitRaised) =>
        \A k \in Workers : thread[k].wpc = "dead" /\ Completed(k)

\* C2 witness: wait_jobs raised after a job failed and a later job still
\* ran to a successful end
C2_Witness ==
    /\ WaitRaised
    /\ \E j, k \in Workers : j < k /\ Raised(j) /\ ~Raised(k)
                             /\ calls[k][1].quiet = 1

\* C3: wait_jobs raises iff at least one submitted job raised
C3_RaiseIffFailed ==
    /\ WaitReturned => \A k \in Workers : ~Raised(k)
    /\ WaitRaised => \E k \in Workers : Raised(k)

\* C3 witness: wait_jobs raised with exactly one failed job among several
C3_Witness ==
    /\ WaitRaised
    /\ Len(thread) >= 2
    /\ Cardinality({k \in Workers : Raised(k)}) = 1

\* C4: when wait_jobs inspects the error list it holds exactly one entry per
\* failed job; has_errors() is true once a failed worker has terminated and
\* never becomes false again
C4_ErrorsExact ==
    /\ [](/\ (pc = "wait_jobs" /\ joined = Len(outstanding_jobs))
               \/ WaitReturned \/ WaitRaised
             => /\ Len(errors) = Cardinality({k \in Workers : Raised(k)})
                /\ Range(errors) = {k \in Workers : Raised(k)}
          /\ \A k \in Workers :
                thread[k].wpc = "dead" /\ Raised(k) => has_errors)
    /\ [][has_errors => has_errors']_vars

\* C4 witness: two workers failed concurrently and were recorded out of
\* submission order
C4_Witness ==
    /\ pc = "wait_jobs"
    /\ joined = Len(outstanding_jobs)
    /\ Len(errors) = 2
    /\ errors[1] > errors[2]

\* C5: every worker releases its slot exactly once, when it ends; a failed
\* worker has recorded its error before releasing; so the free slots plus the
\* slots held equal the capacity, and all are free once all workers ended
C5_SlotReleased ==
    PoolCreated =>
    /\ \A k \in Workers :
          /\ thread[k].releases = (IF thread[k].wpc = "dead" THEN 1 ELSE 0)
          /\ thread[k].releases = 1 /\ Raised(k) => k \in Range(errors)
    /\ slots + Cardinality(Executing)
             + (IF pc = "start_thread" THEN 1 ELSE 0) = threads
    /\ (\A k \in Workers : thread[k].wpc = "dead") /\ pc # "start_thread"
          => slots = threads

\* C5 witness: all workers have ended, one of them by raising
C5_Witness ==
    /\ pc = "wait_jobs"
    /\ Len(thread) >= 2
    /\ \A k \in Workers : thread[k].wpc = "dead"
    /\ \E k \in Workers : Raised(k)
    /\ slots = threads

\* C6: in cpp mode a run in which no batch fails dispatches
\* ceil(N / max(1, min(50, round(N / C)))) batches, all non-empty, whose
\* concatenation is the discovered list
C6_Batching ==
    language = "cpp" /\ WaitReturned =>
    /\ Len(Batches) = CeilDiv(Len(testcases),
                         Max(1, Min(ChunkCap, round(Len(testcases), threads))))
    /\ \A i \in 1 .. Len(Batches) : Len(Batches[i]) >= 1
    /\ Flatten(Batches) = testcases

\* C6 witness: 101 units on two threads were built as three batches, the
\* cap of 50 binding
C6_Witness ==
    /\ language = "cpp"
    /\ pc = "success"
    /\ threads = 2
    /\ Len(testcases) = 2 * ChunkCap + 1
    /\ Len(Batches) = 3
    /\ Len(Batches[1]) = ChunkCap

\* C7: once main() has seen has_errors() return True (threads > 1) it starts
\* no further job
C7_NoSubmitAfterError ==
    [][observed => Len(thread') = Len(thread)]_vars

\* C8: in cpp mode no unit batch is invoked before a support build succeeded;
\* a support build failing with -pipe is retried once without it; the retry's
\* success lets the run go on, its failure is fatal with no unit batch
\* invoked; at most two support builds are attempted
C8_SupportRetry ==
    language = "cpp" =>
    LET sc == SupportCalls
        n == Len(sc)
    IN  /\ n <= 2
        /\ n >= 1 => sc[1].cmd.pipe = ~cl
        /\ n = 2 => /\ sc[1].cmd.pipe /\ sc[1].rtn # 0 /\ sc[1].raised
                    /\ ~sc[2].cmd.pipe
        /\ UnitBatchInvoked =>
              n >= 1 /\ sc[n].quiet = 1 /\ sc[n].rtn = 0 /\ ~sc[n].raised
        /\ n = 1 /\ sc[1].cmd.pipe /\ sc[1].raised =>
              pc \in {"support_wait", "support"} /\ failure = ""
        /\ n = 2 /\ sc[2].rtn = 0 => failure # "support"
        /\ n = 2 /\ sc[2].raised /\ pc # "support_wait" =>
              pc = "fatal" /\ failure = "support"
        /\ failure = "support" =>
              ~UnitBatchInvoked /\ sc[n].raised /\ ~sc[n].cmd.pipe

\* C8 witness: the support build failed with -pipe, succeeded without, and a
\* unit batch has been invoked
C8_Witness ==
    /\ language = "cpp"
    /\ Len(SupportCalls) = 2
    /\ SupportCalls[2].rtn = 0
    /\ \E t \in Threads : \E i \in 1 .. Len(calls[t]) :
          IsUnitCall(calls[t][i]) /\ calls[t][i].quiet = 1

\* the threads between output_mutex.acquire() and output_mutex.release()
InDiagnostics == {t \in Threads : bst[t].st \in {"diag", "release"}}

\* C9: at most one thread is inside the diagnostic section
C9_DiagnosticsExclusive == Cardinality(InDiagnostics) <= 1

\* C9 witness: one worker is inside the section while another waits for it
C9_Witness ==
    \E t, u \in Workers :
        /\ t # u
        /\ bst[t].st = "release"
        /\ bst[u].st = "acquire"

\* every directory of the tree below path: its path, its parent's, its name
RECURSIVE DirsBelow(_, _)
DirsBelow(path, entries) ==
    UNION { IF entries[i].kind = "dir"
            THEN {[path |-> Append(path, entries[i].name), parent |-> path,
                   name |-> entries[i].name]}
                 \cup DirsBelow(Append(path, entries[i].name),
                                entries[i].entries)
            ELSE {}
            : i \in 1 .. Len(entries) }

\* a category directory name, CWE<digits>_..., and its identifier
IsCategory(name) == CwePrefix(name) > 0
CategoryId(name) == SubSeq(name, 4, CwePrefix(name) - 1)

\* the category directories discovery came across (it listed their parent)
CategoriesMet ==
    {d \in DirsBelow(<<>>, tree) : d.parent \in listed /\ IsCategory(d.name)}

\* the number of returned test sources below directory path
ResultsBelow(path) ==
    Cardinality({i \in 1 .. Len(testcases) :
                    /\ Len(testcases[i]) > Len(path)
                    /\ SubSeq(testcases[i], 1, Len(path)) = path})

IsFoundLine(l) == l.line = "found CWE"
FoundLines == SelectSeq(log, IsFoundLine)
FoundLineOf(d) ==
    [line |-> "found CWE", cwe |-> CategoryId(d.name),
     n |-> ResultsBelow(d.path)]

\* C10: a category directory met by discovery is recursed into iff (the
\* include set is empty or holds its identifier) and the exclude set does not
\* hold it; the 'found CWE <id> with <n> test sources' lines are those of the
\* category directories recursed into, one each
C10_CategoryFilter ==
    pc = "scanned" =>
    LET include == CweSet(args_cwes)
        exclude == CweSet(args_exclude)
        entered == {d \in CategoriesMet : d.path \in listed}
    IN  /\ \A d \in CategoriesMet :
              d.path \in listed <=>
                 /\ include = {} \/ CategoryId(d.name) \in include
                 /\ CategoryId(d.name) \notin exclude
        /\ Len(FoundLines) = Cardinality(entered)
        /\ \A d \in entered : FoundLineOf(d) \in Range(FoundLines)
        /\ \A i \in 1 .. Len(FoundLines) :
              \E d \in entered : FoundLines[i] = FoundLineOf(d)

\* C10 witness: a category both included and excluded was not entered, and
\* an included one was entered and logged with two test sources
C10_Witness ==
    /\ pc = "scanned"
    /\ \E d \in CategoriesMet :
          /\ CategoryId(d.name) \in CweSet(args_cwes)
          /\ CategoryId(d.name) \in CweSet(args_exclude)
          /\ d.path \notin listed
    /\ \E d \in CategoriesMet :
          /\ CategoryId(d.name) \in CweSet(args_cwes)
          /\ d.path \in listed
          /\ FoundLineOf(d).n = 2
          /\ FoundLineOf(d) \in Range(FoundLines)

\* a subdivision directory name: s followed only by digits
IsSubdivision(name) ==
    /\ Len(name) >= 2
    /\ name[1] = "s"
    /\ \A j \in 2 .. Len(name) : IsDigit(name[j])

\* a category directory name whose identifier passes the include and
\* exclude sets
PassesFilter(name) ==
    /\ CweSet(args_cwes) = {} \/ CategoryId(name) \in CweSet(args_cwes)
    /\ CategoryId(name) \notin CweSet(args_exclude)

\* discovery may go below a directory of this name
MayEnter(name) ==
    \/ IsCategory(name) /\ PassesFilter(name)
    \/ ~IsCategory(name) /\ IsSubdivision(name)

Building == \E t \in Threads : bst[t].st # "idle" /\ bst[t].st # "ok"
                               /\ bst[t].st # "raise"

\* the build phase has ended: main() printed its success or raised
PhaseEnded == pc \in {"success", "fatal"}

\* C12 as stated: builds run in the object directory and, however the build
\* phase ends, the working directory is the original one again
C12_CwdRestoredAlways ==
    /\ Building => cwd = "object"
    /\ PhaseEnded => cwd = "original"

\* C12 as amended: builds run in the object directory; the working
\* directory is the original one again when the build phase ends normally,
\* and is still the object directory when it ends by an exception
C12_CwdRestoredOnSuccess ==
    /\ Building => cwd = "object"
    /\ pc = "success" => cwd = "original"
    /\ pc = "fatal" => cwd = "object"

\* C12 witness: the build phase ended normally after worker threads built
\* batches, and the working directory is the original one
C12_Witness ==
    /\ pc = "success"
    /\ Len(thread) >= 2
    /\ \A k \in Workers : Len(calls[k]) = 1
    /\ cwd = "original"

\* seq is a prefix of full
IsPrefix(seq, full) ==
    Len(seq) <= Len(full) /\ seq = SubSeq(full, 1, Len(seq))

\* C13: with one thread no worker thread is ever started; the batches are
\* built by the main thread one after another in discovery order, each only
\* after the one before returned success; the first failing batch raises and
\* no later batch is invoked
C13_SerialInline ==
    threads = 1 =>
    /\ thread = <<>>
    /\ outstanding_jobs = <<>>
    /\ slots \in {0, 1}
    /\ IsPrefix(Flatten(Batches), testcases)
    /\ \A i \in 1 .. Len(InlineCalls) - 1 :
          /\ InlineCalls[i].quiet = 1
          /\ InlineCalls[i].rtn = 0
          /\ ~InlineCalls[i].raised
    /\ \A i \in 1 .. Len(InlineCalls) :
          InlineCalls[i].raised => i = Len(InlineCalls) /\ pc # "loop"
    /\ failure = "build" =>
          /\ InlineCalls # <<>>
          /\ InlineCalls[Len(InlineCalls)].rtn # 0

\* C13 witness: with one thread the second batch failed, main() raised, and
\* a discovered unit was never handed to a build
C13_Witness ==
    /\ threads = 1
    /\ failure = "build"
    /\ Len(InlineCalls) = 2
    /\ Len(Flatten(Batches)) < Len(testcases)

\* the build_source_files calls made so far, by any thread
AllCalls == UNION {Range(calls[t]) : t \in Threads}

\* C14: in java mode every batch handed to build_source_files holds exactly
\* one unit, and the 'more than one file' exception is never raised
C14_JavaSingleUnit ==
    language = "java" =>
    /\ \A c \in AllCalls : Len(c.cmd.sources) = 1 /\ c.quiet = 1
    /\ \A k \in Workers : Len(thread[k].job) = 1
    /\ pc \in {"inline", "inline_wait", "acquire_slot", "start_thread"} =>
          Len(chunk) = 1

\* C14 witness: in java mode on two threads, three workers each ran ant on
\* its one build file
C14_Witness ==
    /\ language = "java"
    /\ threads = 2
    /\ Len(thread) = 3
    /\ \A k \in Workers : Len(calls[k]) = 1 /\ calls[k][1].cmd.tool = "ant"

\* seq has no element twice
NoDuplicates(seq) ==
    \A i, j \in 1 .. Len(seq) : i # j => seq[i] # seq[j]

\* C15: in every run the batches dispatched, concatenated in submission
\* order, are a duplicate-free prefix of the discovered list
C15_NoUnitTwice ==
    /\ NoDuplicates(Flatten(Batches))
    /\ IsPrefix(Flatten(Batches), testcases)

\* thread t has left its i-th build_source_files call
CallEnded(t, i) ==
    i < Len(calls[t]) \/ bst[t].st \in {"idle", "ok", "raise"}

\* C16: a call whose quiet run returned non-zero re-runs the same command
\* once with the verbose flags and then raises, whatever the re-run
\* returned; a call whose quiet run returned zero does neither
C16_VerboseRerunThenRaise ==
    /\ [](\A t \in Threads : \A i \in 1 .. Len(calls[t]) :
            LET c == calls[t][i] IN
            /\ c.quiet = 1 /\ c.rtn = 0 =>
                  c.verbose = 0 /\ ~c.raised /\ c.vflags = <<>>
            /\ c.quiet = 1 /\ c.rtn # 0 /\ CallEnded(t, i) =>
                  c.verbose = 1 /\ c.raised /\ c.vflags = Verbose(c.cmd)
            /\ c.verbose <= 1)
    /\ [][\A t \in Threads :
            bst[t].st = "release" =>
               bst'[t].st = "release" \/ (bst'[t].st = "raise"
                                          /\ LastCall(t).raised')]_vars

\* C16 witness: a worker's quiet run failed and its verbose re-run returned
\* zero
C16_Witness ==
    \E k \in Workers :
        /\ bst[k].st = "release"
        /\ bst[k].rtn # 0
        /\ bst[k].rtn2 = 0
        /\ LastCall(k).verbose = 1

\* C17: once wait_jobs has finished waiting, the pool's list of outstanding
\* jobs is empty
C17_OutstandingEmptied ==
    WaitReturned \/ WaitRaised => outstanding_jobs = <<>>

\* the run is over: main() ended, every worker ended, nothing is held
Terminated ==
    /\ pc \in {"success", "fatal"}
    /\ \A k \in Workers : thread[k].wpc = "dead"
    /\ \A t \in Threads : bst[t].st \in {"idle", "ok", "raise"}
    /\ output_mutex = 1
    /\ PoolCreated => slots = threads

\* C18: if every external process returns and threads are scheduled fairly,
\* every run terminates: no start_job, mutex acquisition or join blocks
\* forever
C18_Terminates == <>Terminated

\* C18 witness: the pool is full and main() waits for a slot while one
\* failed worker is in the diagnostic section and the other waits for the
\* mutex
C18_Witness ==
    /\ pc = "acquire_slot"
    /\ slots = 0
    /\ \E t, u \in Workers :
          /\ bst[t].st = "diag"
          /\ bst[u].st = "acquire"

\* the calls that built unit batches, by any thread
UnitCalls == {c \in AllCalls : IsUnitCall(c)}

\* the units handed to a build so far
UnitsDispatched == Range(Flatten(Batches))

\* C19: the run reaches 'all testcases built' only if every discovered unit
\* was in a dispatched batch and every dispatched batch was invoked and
\* returned zero; once a batch invocation returned non-zero, or the
\* submission was stopped early, the run cannot end in success, and a run
\* that ended otherwise ended by a raised exception
C19_SuccessMeansAllBuilt ==
    /\ pc \in {"built", "success"} =>
          /\ UnitsDispatched = Range(testcases)
          /\ \A c \in UnitCalls : c.quiet = 1 /\ c.rtn = 0 /\ ~c.raised
          /\ \A k \in Workers : Len(calls[k]) = 1
          /\ Len(InlineCalls) = (IF threads = 1 THEN Len(Batches) ELSE 0)
          /\ failure = ""
    /\ (\E c \in UnitCalls : c.rtn # 0) \/ observed
          \/ (PhaseEnded /\ UnitsDispatched # Range(testcases))
          => /\ pc \notin {"built", "success"}
             /\ PhaseEnded => pc = "fatal" /\ failure # ""

\* C19 witness: a batch returned non-zero while a later batch succeeded, the
\* submission was stopped early with a unit left out, and wait_jobs raised
C19_Witness ==
    /\ pc = "fatal"
    /\ failure = "pool"
    /\ observed
    /\ UnitsDispatched # Range(testcases)
    /\ \E c \in UnitCalls : c.rtn = 0

TypeOK ==
    /\ slots \in 0 .. MaxThreads
    /\ output_mutex \in 0 .. 1
====
